---- MODULE Spec2Model ----
(***************************************************************************)
(* Model of the Pistols at Dawn agent (src/unnamed/part_001): the action   *)
(* handlers that own the duel commitment protocol (commit_moves,           *)
(* reveal_moves) and the challenge lifecycle (fetch_challenges,            *)
(* accept_challenge), over the agent memory PistolsState.                  *)
(*                                                                         *)
(* Every handler runs to completion as one step: the agent is a single     *)
(* logical actor.  The external collaborators (starknetChain.write, the    *)
(* GraphQL read API, Math.random) are nondeterministic choices.            *)
(***************************************************************************)
EXTENDS Integers, Sequences, FiniteSets, TLC

(***************************************************************************)
(* Bounds                                                                  *)
(***************************************************************************)
MaxDuel == 2
MaxDuelist == 1
MaxCommitInput == 1
MaxSnapshot == 1
MaxTime == 3
MaxChallenges == 2
MaxQuoteLen == 31
MaxExpireHours == 25
MaxRecursion == 2
MaxSortLen == 3
MaxStart == 2
MaxZeros == 2
MaxHistory == 2

DuelIds == 1..MaxDuel
DuelistIds == 1..MaxDuelist

\* What one commit_moves call works on: the move list the caller passes,
\* [shoot step, dodge step, tactic, blade], and the value that
\* Math.floor(Math.random() * 0xFFFFFFFF) yields.  The move lists alternate
\* between one list and its shoot/dodge swap; every draw of the salt is a
\* different multiple of 0xbeef.
CommitInputs ==
  { [moves |-> IF i % 2 = 0 THEN << 3, 7, 1, 2 >> ELSE << 7, 3, 1, 2 >>,
     salt |-> (i + 1) * 48879] : i \in 0..MaxCommitInput }

(***************************************************************************)
(* Imported helpers                                                        *)
(***************************************************************************)
HexDigit(n) ==
  CASE n = 0 -> "0" [] n = 1 -> "1" [] n = 2 -> "2" [] n = 3 -> "3"
    [] n = 4 -> "4" [] n = 5 -> "5" [] n = 6 -> "6" [] n = 7 -> "7"
    [] n = 8 -> "8" [] n = 9 -> "9" [] n = 10 -> "a" [] n = 11 -> "b"
    [] n = 12 -> "c" [] n = 13 -> "d" [] n = 14 -> "e" [] n = 15 -> "f"

RECURSIVE ToString16(_)
\* BigInt.prototype.toString(16): hex digits, most significant first, no
\* leading zero; a string is a sequence of one-character strings.
ToString16(n) ==
  IF n < 16 THEN << HexDigit(n) >>
  ELSE Append(ToString16(n \div 16), HexDigit(n % 16))

\* bigintToHex of the pistols sdk: '0x' followed by the hex digits.
bigintToHex(v) == << "0", "x" >> \o ToString16(v)

RECURSIVE MovesMix(_, _, _)
MovesMix(salt, moves, i) ==
  IF i > Len(moves) THEN 0
  ELSE (IF moves[i] = 0 THEN 0
        ELSE (((salt % 251) + 1) * (moves[i] + 3) * (i + 1)) % 16)
       + 16 * MovesMix(salt, moves, i + 1)

\* make_moves_hash of the pistols sdk: a pure function of the salt and the
\* ordered moves, one lane per move.  The sdk's mixing function is not part
\* of the repository; a small deterministic mix stands for it.
make_moves_hash(salt, moves) == MovesMix(salt, moves, 1)

\* String.prototype.toLowerCase on one character of an address.
ToLowerCase(c) ==
  CASE c = "A" -> "a" [] c = "B" -> "b" [] c = "C" -> "c" [] c = "D" -> "d"
    [] c = "E" -> "e" [] c = "F" -> "f" [] c = "X" -> "x" [] OTHER -> c

\* address.startsWith('0x')
StartsWith0x(address) ==
  Len(address) >= 2 /\ address[1] = "0" /\ address[2] = "x"

RECURSIVE StripLeadingZeros(_)
\* stripped.replace(/^0+/, '')
StripLeadingZeros(str) ==
  IF str # << >> /\ str[1] = "0" THEN StripLeadingZeros(Tail(str)) ELSE str

normalizeStarknetAddress(address) ==
  IF address = << >> THEN address
  ELSE LET stripped == IF StartsWith0x(address)
                       THEN SubSeq(address, 3, Len(address))
                       ELSE address
           normalized == StripLeadingZeros(stripped)
       IN << "0", "x" >> \o [i \in 1..Len(normalized) |-> ToLowerCase(normalized[i])]

RECURSIVE ToString10(_)
\* Number.prototype.toString() of a non-negative integer.
ToString10(n) ==
  IF n < 10 THEN << HexDigit(n) >>
  ELSE Append(ToString10(n \div 10), HexDigit(n % 10))

\* The ASCII code of a character a quote is written with.
CharCode(c) == CASE c = "!" -> 33 [] c = "a" -> 97 [] c = "z" -> 122

\* bigintToHex(stringToFelt(str)) of the pistols sdk: a short string is
\* packed into a felt one byte per character, first character first, so its
\* hex form has two digits per character.
StringFeltHex(str) ==
  IF str = << >> THEN << "0", "x", "0" >>
  ELSE << "0", "x" >> \o
       [i \in 1..2 * Len(str) |->
          IF i % 2 = 1 THEN HexDigit(CharCode(str[(i + 1) \div 2]) \div 16)
          ELSE HexDigit(CharCode(str[i \div 2]) % 16)]

(***************************************************************************)
(* State                                                                   *)
(***************************************************************************)
VARIABLES
  committedMoves,   \* PistolsState.committedMoves: duel id -> [salt, moves, hash]
  activeChallenge,  \* PistolsState.activeChallenge (a duel id; 0 is the empty string)
  duelistId,        \* PistolsState.duelistId (a duelist id; 0 is the empty string)
  challengeState,   \* PistolsState.challengeState ("" when none)
  activeChallenges, \* PistolsState.activeChallenges
  lastCall,         \* the handler invocation that ran last, with its input
  result,           \* the value that invocation returned
  writes,           \* the starknetChain.write calls that invocation issued
  firstCommit,      \* history: duel id -> [salt, moves] of the first commit submitted
  now,              \* the wall clock, Math.floor(Date.now() / 1000)
  duelResults       \* PistolsState.duelResults

vars == << committedMoves, activeChallenge, duelistId, challengeState,
           activeChallenges, lastCall, result, writes, firstCommit, now,
           duelResults >>

\* duelResults: { rounds: [], totalDuels: 0, lastAnalyzed: 0 }
NoDuelResults == [rounds |-> << >>, totalDuels |-> 0, lastAnalyzed |-> 0]

NoCall == [action |-> "none", duelId |-> 0, moves |-> << >>]
NoResult == [success |-> FALSE, message |-> "", error |-> "", salt |-> << >>,
             moves |-> << >>, hash |-> << >>, active |-> << >>]

\* What starknetChain.write can do with a submitted call: return a receipt
\* with events, return one without events, or throw.
WriteOutcomes == { "events", "noevents", "throw" }

\* error instanceof Error ? error.message : String(error)
WriteError == "write failed"

Failure(message, error) ==
  [success |-> FALSE, message |-> message, error |-> error, salt |-> << >>,
   moves |-> << >>, hash |-> << >>, active |-> << >>]

EmptyStore == [d \in {} |-> 0]

Put(store, d, v) == [x \in DOMAIN store \cup {d} |-> IF x = d THEN v ELSE store[x]]
Remove(store, d) == [x \in DOMAIN store \ {d} |-> store[x]]

Init ==
  /\ committedMoves = EmptyStore
  /\ activeChallenge = 0
  /\ duelistId = 0
  /\ challengeState = ""
  /\ activeChallenges = << >>
  /\ lastCall = NoCall
  /\ result = NoResult
  /\ writes = << >>
  /\ firstCommit = EmptyStore
  /\ now = 0
  /\ duelResults = NoDuelResults

(***************************************************************************)
(* commit_moves                                                            *)
(***************************************************************************)
\* Mutant: the stored hash is not the one that was submitted.
CommitStoreOtherHash(store, d, salt, moves, hash) ==
  Put(store, d, [salt |-> salt, moves |-> moves, hash |-> hash + 1])

CommitStore(store, d, salt, moves, hash) ==
  Put(store, d, [salt |-> salt, moves |-> moves, hash |-> hash])

\* Mutant: the moves are stored even though the commit write threw.
CommitConfirmedOnThrow(outcome) == outcome \in { "events", "throw" }

\* if (commitResponse.events && commitResponse.events.length > 0)
CommitConfirmed(outcome) == outcome = "events"

\* Mutant: the commit write also carries the salt.
CommitCalldataWithSalt(k, d, hashResultHex, saltHex) ==
  << k, d, hashResultHex, saltHex >>

\* calldata: [duelistId, duelId, hashResultHex]; saltHex is in scope and is
\* not passed.
CommitCalldata(k, d, hashResultHex, saltHex) == << k, d, hashResultHex >>

commit_moves(k, d, moves, saltValue, outcome) ==
  LET hashResult == make_moves_hash(saltValue, moves)
      hashResultHex == bigintToHex(hashResult)
      write == [entrypoint |-> "commit_moves",
                calldata |-> CommitCalldata(k, d, hashResultHex, bigintToHex(saltValue)),
                outcome |-> outcome]
  IN
  /\ lastCall' = [action |-> "commit_moves", duelId |-> d, moves |-> moves]
  /\ writes' = << write >>
  /\ IF CommitConfirmed(outcome)
     THEN /\ activeChallenge' = d
          /\ duelistId' = k
          /\ committedMoves' = CommitStore(committedMoves, d, saltValue, moves, hashResult)
          /\ result' = [success |-> TRUE, message |-> "Moves successfully committed",
                        error |-> "", salt |-> bigintToHex(saltValue),
                        moves |-> moves, hash |-> hashResultHex, active |-> << >>]
     ELSE /\ UNCHANGED << activeChallenge, duelistId, committedMoves >>
          /\ result' = Failure("Failed to commit moves",
                               IF outcome = "throw" THEN WriteError
                               ELSE "Commit transaction did not emit events")
  /\ UNCHANGED << challengeState, activeChallenges, duelResults >>

(***************************************************************************)
(* reveal_moves                                                            *)
(***************************************************************************)
\* Mutant: the reveal presents the shoot and dodge steps in swapped order.
RevealCalldataSwapped(k, d, storedMoves) ==
  << k, d, bigintToHex(storedMoves.salt),
     << storedMoves.moves[2], storedMoves.moves[1] >> \o SubSeq(storedMoves.moves, 3, Len(storedMoves.moves)) >>

RevealCalldata(k, d, storedMoves) ==
  << k, d, bigintToHex(storedMoves.salt), storedMoves.moves >>

\* Mutant: a confirmed reveal clears every stored secret.
RevealStoreClearsAll(store, d) == EmptyStore

\* Mutant: the secret is kept after a confirmed reveal.
RevealStoreKept(store, d) == store

\* delete state.committedMoves[duelId]
RevealStore(store, d) == Remove(store, d)

\* if (!storedMoves)
RevealMissing(store, d) == d \notin DOMAIN store

\* Mutant: a reveal without a stored secret does nothing and reports success.
MissingSecretSilent ==
  [success |-> TRUE, message |-> "Moves successfully revealed", error |-> "",
   salt |-> << >>, moves |-> << >>, hash |-> << >>, active |-> << >>]

\* throw new Error('No committed moves found for this duel'), as the catch
\* block returns it
MissingSecretResult ==
  Failure("Failed to reveal moves", "No committed moves found for this duel")

\* Mutant: any returned receipt counts as a confirmation.
RevealConfirmedAnyReceipt(outcome) == outcome # "throw"

\* if (revealResponse.events && revealResponse.events.length > 0)
RevealConfirmed(outcome) == outcome = "events"

reveal_moves(k, d, outcome) ==
  /\ lastCall' = [action |-> "reveal_moves", duelId |-> d, moves |-> << >>]
  /\ IF RevealMissing(committedMoves, d)
     THEN /\ writes' = << >>
          /\ result' = MissingSecretResult
          /\ UNCHANGED << committedMoves, activeChallenge, duelistId >>
     ELSE LET storedMoves == committedMoves[d]
              write == [entrypoint |-> "reveal_moves",
                        calldata |-> RevealCalldata(k, d, storedMoves),
                        outcome |-> outcome]
          IN
          /\ writes' = << write >>
          /\ IF RevealConfirmed(outcome)
             THEN /\ committedMoves' = RevealStore(committedMoves, d)
                  /\ activeChallenge' = d
                  /\ duelistId' = k
                  /\ result' = [success |-> TRUE,
                                message |-> "Moves successfully revealed",
                                error |-> "",
                                salt |-> bigintToHex(storedMoves.salt),
                                moves |-> storedMoves.moves, hash |-> << >>,
                                active |-> << >>]
             ELSE /\ UNCHANGED << committedMoves, activeChallenge, duelistId >>
                  /\ result' = Failure("Failed to reveal moves",
                                       IF outcome = "throw" THEN WriteError
                                       ELSE "Reveal transaction did not emit events")
  /\ UNCHANGED << challengeState, activeChallenges, duelResults >>

CommitMoves ==
  \E k \in DuelistIds, d \in DuelIds, input \in CommitInputs,
     outcome \in WriteOutcomes :
    /\ commit_moves(k, d, input.moves, input.salt, outcome)
    /\ UNCHANGED << firstCommit, now >>

RevealMoves ==
  \E k \in DuelistIds, d \in DuelIds, outcome \in WriteOutcomes :
    /\ reveal_moves(k, d, outcome)
    /\ UNCHANGED << firstCommit, now >>

\* commit_moves, recording for each duel id the first commit write that the
\* chain answered with a receipt.
CommitMovesFirst ==
  \E k \in DuelistIds, d \in DuelIds, input \in CommitInputs,
     outcome \in WriteOutcomes :
    /\ commit_moves(k, d, input.moves, input.salt, outcome)
    /\ firstCommit' = IF d \in DOMAIN firstCommit \/ outcome = "throw"
                      THEN firstCommit
                      ELSE Put(firstCommit, d, [salt |-> input.salt, moves |-> input.moves])
    /\ UNCHANGED now

\* Move lists the schema z.array(z.number()) admits and the rules of the
\* duel do not: equal shoot and dodge steps, a step above 10, a step of 0.
IllegalMoves == { << 3, 3, 1, 2 >>, << 11, 2, 1, 2 >>, << 3, 0, 1, 2 >> }

\* commit_moves on any move list the schema admits, legal or not.
CommitAnyMoves ==
  \E k \in DuelistIds, d \in DuelIds, outcome \in WriteOutcomes,
     moves \in IllegalMoves \cup { input.moves : input \in CommitInputs } :
    /\ commit_moves(k, d, moves, 48879, outcome)
    /\ UNCHANGED << firstCommit, now >>

NextMoves == CommitAnyMoves \/ RevealMoves

SpecMoves == Init /\ [][NextMoves]_vars

NextSecret == CommitMoves \/ RevealMoves

SpecSecret == Init /\ [][NextSecret]_vars

NextFirst == CommitMovesFirst \/ RevealMoves

SpecFirst == Init /\ [][NextFirst]_vars

(***************************************************************************)
(* fetch_challenges                                                        *)
(***************************************************************************)
\* constants.ChallengeState
ChallengeStates == { "Null", "Awaiting", "Withdrawn", "Refused", "Expired",
                     "InProgress", "Resolved", "Draw" }

\* The agent's address and another player's, both in normalized form.
PlayerAddress == << "0", "x", "a", "1" >>
OpponentAddress == << "0", "x", "b", "2" >>

\* A duelist token that belongs to the other player.
OpponentDuelist == MaxDuelist + 1

\* A ChallengeData node as the read API returns it for a duel in which the
\* agent is on the given side with duelist own: duelist_id_b is empty (0)
\* until the challenge is accepted.
ChallengeNode(d, st, side, own, start) ==
  [duel_id |-> d,
   state |-> st,
   address_a |-> IF side = "a" THEN PlayerAddress ELSE OpponentAddress,
   address_b |-> IF side = "a" THEN OpponentAddress ELSE PlayerAddress,
   duelist_id_a |-> IF side = "a" THEN own ELSE OpponentDuelist,
   duelist_id_b |-> IF st \in { "Awaiting", "Withdrawn", "Refused", "Expired", "Null" }
                    THEN 0
                    ELSE IF side = "a" THEN OpponentDuelist ELSE own,
   start |-> start]

\* The states a returned node is drawn from: the two live ones, one that
\* ends an accepted duel and one that ends a duel nobody accepted.
SnapshotStates == { "Awaiting", "InProgress", "Resolved", "Expired" }

\* The nodes a query can return.  Duel ids are handed out in order of
\* creation, so a duel's start time grows with its id; the ledger shows the
\* agent with its first duelist.  A duel that is over is seen from side a:
\* its node is dropped by the filter whatever else it holds.
RemoteNodes ==
  { ChallengeNode(d, st, side, 1, d) :
      d \in DuelIds, st \in { "Awaiting", "InProgress" }, side \in { "a", "b" } }
  \cup
  { ChallengeNode(d, st, "a", 1, d) :
      d \in DuelIds, st \in SnapshotStates \ { "Awaiting", "InProgress" } }

\* What one query can return: up to MaxSnapshot nodes of different duels,
\* listed by duel id.  No two of these nodes compare equal under the sort
\* (their start times differ), so the order of the listing does not reach
\* the result; QueryAnswers below holds the listings with ties.
Snapshots ==
  UNION { { q \in [1..n -> RemoteNodes] :
              \A i, j \in 1..n : i < j => q[i].duel_id < q[j].duel_id } :
          n \in 0..MaxSnapshot }

WithDuelist(node, k) ==
  [duel_id |-> node.duel_id, state |-> node.state,
   address_a |-> node.address_a, address_b |-> node.address_b,
   duelist_id_a |-> node.duelist_id_a, duelist_id_b |-> node.duelist_id_b,
   start |-> node.start, duelist_id |-> k]

\* statePriority
StatePriority(st) ==
  CASE st = "InProgress" -> 0 [] st = "Awaiting" -> 1 [] st = "Resolved" -> 2
    [] st = "Draw" -> 3 [] st = "Refused" -> 4 [] st = "Withdrawn" -> 5
    [] st = "Expired" -> 6 [] st = "Null" -> 7

\* Mutant: within one state the older challenge comes first.
CompareChallengesOldestFirst(a, b) ==
  LET priorityDiff == StatePriority(a.state) - StatePriority(b.state)
  IN IF priorityDiff # 0 THEN priorityDiff ELSE a.start - b.start

\* The comparator passed to challenges.sort.
CompareChallenges(a, b) ==
  LET priorityDiff == StatePriority(a.state) - StatePriority(b.state)
  IN IF priorityDiff # 0 THEN priorityDiff ELSE b.start - a.start

RECURSIVE InsertChallenge(_, _)
\* x goes behind every element that does not compare greater than it.
InsertChallenge(sorted, x) ==
  IF sorted = << >> THEN << x >>
  ELSE IF CompareChallenges(sorted[Len(sorted)], x) <= 0 THEN Append(sorted, x)
  ELSE Append(InsertChallenge(SubSeq(sorted, 1, Len(sorted) - 1), x),
              sorted[Len(sorted)])

RECURSIVE SortFrom(_, _, _)
SortFrom(sorted, seq, i) ==
  IF i > Len(seq) THEN sorted
  ELSE SortFrom(InsertChallenge(sorted, seq[i]), seq, i + 1)

\* Array.prototype.sort with the comparator above: a stable sort.
SortChallenges(seq) == SortFrom(<< >>, seq, 1)

IsActive(challenge) == challenge.state = "InProgress" \/ challenge.state = "Awaiting"

\* Mutant: nothing is filtered out.
FilterActiveKeepsAll(seq) == seq

FilterActive(seq) == SelectSeq(seq, IsActive)

\* Mutant: the records read are added to the ones already held.
StoredChallengesMerged(active) ==
  activeChallenges \o
  [i \in 1..Len(active) |-> WithDuelist(active[i], active[i].duelist_id_a)]

\* state.activeChallenges = activeChallenges.map(... duelist_id: challenge.duelist_id_a)
StoredChallenges(active) ==
  [i \in 1..Len(active) |-> WithDuelist(active[i], active[i].duelist_id_a)]

\* edges.map(edge => ({ ...edge.node, duelist_id: edge.node.duelist_id_a }))
ChallengesAsA(nodes) ==
  [i \in 1..Len(nodes) |-> WithDuelist(nodes[i], nodes[i].duelist_id_a)]

\* edges.map(edge => ({ ...edge.node, duelist_id: edge.node.duelist_id_b }))
ChallengesAsB(nodes) ==
  [i \in 1..Len(nodes) |-> WithDuelist(nodes[i], nodes[i].duelist_id_b)]

ReadError == "API request failed"

\* nodesA, nodesB: the edges of addressAChallenges and addressBChallenges;
\* ok: whether queryPistolsAPI returned.
fetch_challenges(nodesA, nodesB, ok) ==
  LET challenges == ChallengesAsA(nodesA) \o ChallengesAsB(nodesB)
      sortedChallenges == SortChallenges(challenges)
      active == FilterActive(sortedChallenges)
      currentChallenge == active[1]
  IN
  /\ lastCall' = [action |-> "fetch_challenges", duelId |-> 0, moves |-> << >>]
  /\ writes' = << >>
  /\ IF ~ok
     THEN /\ result' = Failure("Failed to fetch challenges", ReadError)
          /\ UNCHANGED << activeChallenges, activeChallenge, challengeState, duelistId >>
     ELSE /\ result' = [success |-> TRUE, message |-> "Found challenges", error |-> "",
                        salt |-> << >>, moves |-> << >>, hash |-> << >>,
                        active |-> active]
          /\ IF Len(active) > 0
             THEN /\ activeChallenges' = StoredChallenges(active)
                  /\ activeChallenge' = currentChallenge.duel_id
                  /\ challengeState' = currentChallenge.state
                  /\ duelistId' = IF currentChallenge.state = "InProgress"
                                  THEN currentChallenge.duelist_id_a
                                  ELSE duelistId
             ELSE UNCHANGED << activeChallenges, activeChallenge, challengeState,
                               duelistId >>
  /\ UNCHANGED << committedMoves, duelResults >>

(***************************************************************************)
(* accept_challenge                                                        *)
(***************************************************************************)
\* Mutant: the accepted record keeps its empty duelist_id_b.
AcceptedChallengeNoDuelist(c, k) ==
  [duel_id |-> c.duel_id, state |-> "InProgress",
   address_a |-> c.address_a, address_b |-> c.address_b,
   duelist_id_a |-> c.duelist_id_a, duelist_id_b |-> c.duelist_id_b,
   start |-> c.start, duelist_id |-> c.duelist_id]

AcceptedChallenge(c, k) ==
  [duel_id |-> c.duel_id, state |-> "InProgress",
   address_a |-> c.address_a, address_b |-> c.address_b,
   duelist_id_a |-> c.duelist_id_a, duelist_id_b |-> k,
   start |-> c.start, duelist_id |-> c.duelist_id]

\* The write is the first statement of the handler: no condition on the
\* challenge precedes it, and the receipt's events are not inspected.
\* Mutant: the reply refuses the challenge.
ReplyCalldataRefused(k, challengeId) == << k, challengeId, "0" >>

\* [duelistId, challengeId, '1']: the third argument is the accepted flag.
ReplyCalldata(k, challengeId) == << k, challengeId, "1" >>

accept_challenge(k, challengeId, outcome) ==
  LET write == [entrypoint |-> "reply_duel",
                calldata |-> ReplyCalldata(k, challengeId),
                outcome |-> outcome]
  IN
  /\ lastCall' = [action |-> "accept_challenge", duelId |-> challengeId,
                  moves |-> << >>]
  /\ writes' = << write >>
  /\ IF outcome = "throw"
     THEN /\ result' = Failure("Failed to accept challenge", WriteError)
          /\ UNCHANGED << activeChallenge, duelistId, challengeState,
                          activeChallenges >>
     ELSE /\ activeChallenge' = challengeId
          /\ duelistId' = k
          /\ challengeState' = "InProgress"
          /\ activeChallenges' =
               [i \in 1..Len(activeChallenges) |->
                  IF activeChallenges[i].duel_id = challengeId
                  THEN AcceptedChallenge(activeChallenges[i], k)
                  ELSE activeChallenges[i]]
          /\ result' = [success |-> TRUE,
                        message |-> "Challenge successfully accepted",
                        error |-> "", salt |-> << >>, moves |-> << >>,
                        hash |-> << >>, active |-> << >>]
  /\ UNCHANGED << committedMoves, duelResults >>

(***************************************************************************)
(* create_challenge                                                        *)
(***************************************************************************)
\* quote: z.string().max(30)
QuoteSchemaMax == 30

\* expireHours: z.number().min(1).max(24)
ExpireHoursSchemaMin == 1
ExpireHoursSchemaMax == 24

\* The schema of the action, which the call is parsed against before the
\* handler runs.
CreateSchemaValid(quote, expireHours) ==
  /\ Len(quote) <= QuoteSchemaMax
  /\ expireHours >= ExpireHoursSchemaMin
  /\ expireHours <= ExpireHoursSchemaMax

SchemaError == "Invalid arguments"

\* bigintToHex(stringToFelt(constants.TABLES.PRACTICE)), a constant.
TableId == "PRACTICE"

\* The record pushed on state.activeChallenges.
NewChallenge(duelId, k, playerAddress, challengedAddress, start) ==
  [duel_id |-> duelId, state |-> "Awaiting",
   address_a |-> playerAddress, address_b |-> challengedAddress,
   duelist_id_a |-> k, duelist_id_b |-> 0,
   start |-> start, duelist_id |-> k]

\* rawPlayer, rawChallenged: call.data.playerAddress and
\* call.data.challengedAddress as passed; newDuel: the duel id in the first
\* event of the receipt.  No premise is passed and livesStaked is left to
\* its default.
create_challenge(rawPlayer, k, rawChallenged, quote, hours, outcome, newDuel) ==
  LET playerAddress == normalizeStarknetAddress(rawPlayer)
      challengedAddress == normalizeStarknetAddress(rawChallenged)
      premiseValue == "1"
      expireHours == IF hours = 0 THEN 24 ELSE hours
      livesStaked == 1
      quoteFelt == StringFeltHex(quote)
      write == [entrypoint |-> "create_duel",
                calldata |-> << k, challengedAddress, premiseValue, quoteFelt,
                                TableId, ToString10(expireHours), livesStaked >>,
                outcome |-> outcome]
      duelId == IF outcome = "events" THEN newDuel ELSE 0
  IN
  /\ lastCall' = [action |-> "create_challenge", duelId |-> 0, moves |-> << >>]
  /\ IF ~CreateSchemaValid(quote, hours)
     THEN /\ writes' = << >>
          /\ result' = Failure("Failed to create challenge", SchemaError)
          /\ UNCHANGED activeChallenges
     ELSE /\ writes' = << write >>
          /\ IF outcome = "throw"
             THEN /\ result' = Failure("Failed to create challenge", WriteError)
                  /\ UNCHANGED activeChallenges
             ELSE /\ activeChallenges' =
                       Append(activeChallenges,
                              NewChallenge(duelId, k, playerAddress,
                                           challengedAddress, now))
                  /\ result' = [success |-> TRUE,
                                message |-> "Challenge successfully created",
                                error |-> "", salt |-> << >>, moves |-> << >>,
                                hash |-> << >>, active |-> << >>]
  /\ UNCHANGED << committedMoves, activeChallenge, duelistId, challengeState,
                  duelResults >>

\* The address the agent plays for as the caller writes it, and the
\* addresses a caller can name as the challenged party: the agent's own in
\* two spellings, and another player's.
RawPlayerAddress == << "0", "x", "0", "A", "1" >>
RawAddresses == { << "0", "x", "0", "A", "1" >>, << "0", "x", "a", "1" >>,
                  << "0", "x", "B", "2" >> }

\* A quote of n characters.
Quote(n) == [i \in 1..n |-> IF i % 2 = 1 THEN "a" ELSE "!"]

\* The quotes and expiry windows a caller passes: at, below and above what
\* the schema and the prompt allow.
QuoteInputs == { Quote(n) : n \in { 0, 19, 20, QuoteSchemaMax, MaxQuoteLen } }
ExpireHoursInputs == { 0, 1, 24, MaxExpireHours }

(***************************************************************************)
(* get_available_duelists                                                  *)
(***************************************************************************)
\* A third registered player.
OtherAddress == << "0", "x", "c", "3" >>
AllPlayers == { PlayerAddress, OpponentAddress, OtherAddress }

\* The duelist tokens that exist: the agent's and the opponent's.  The
\* third player holds a token of another contract only.
TokenIds == DuelistIds \cup { OpponentDuelist }
PackTokenId == OpponentDuelist + 1

OwnerOf(t) == IF t \in DuelistIds THEN PlayerAddress ELSE OpponentAddress

\* tokenBalances(accountAddress: target): the token metadata of the tokens
\* the target holds; alive is the set of duelists whose Alive attribute
\* reads "Alive".
TokenBalances(target, alive) ==
  { [tokenId |-> t, contract |-> "duelist_token",
     alive |-> IF t \in alive THEN "Alive" ELSE "Dead"] :
      t \in { x \in TokenIds : OwnerOf(x) = target } }
  \cup (IF target = OtherAddress
        THEN { [tokenId |-> PackTokenId, contract |-> "pack_token",
                alive |-> "Alive"] }
        ELSE {})

parseDuelistMetadata(tokenMetadata) ==
  [duelist_id |-> tokenMetadata.tokenId,
   is_alive |-> tokenMetadata.alive = "Alive",
   is_inactive |-> FALSE]

\* busyDuelists: both duelists of every challenge the InProgress query
\* returned.
BusyDuelists(challenges) ==
  { challenges[i].duelist_id_a : i \in 1..Len(challenges) }
  \cup { challenges[i].duelist_id_b : i \in 1..Len(challenges) }

AvailableDuelists(target, alive, busyDuelists) ==
  { duelist \in { parseDuelistMetadata(tm) :
                    tm \in { x \in TokenBalances(target, alive) :
                               x.contract = "duelist_token" } } :
      duelist.is_alive /\ ~duelist.is_inactive
      /\ duelist.duelist_id \notin busyDuelists }

NullDuelist == [duelist_id |-> 0, is_alive |-> FALSE, is_inactive |-> FALSE,
                owner_address |-> << >>]

SelectionResult(message, selectedDuelist) ==
  [success |-> TRUE, message |-> message, error |-> "", salt |-> << >>,
   moves |-> << >>, hash |-> << >>, active |-> << >>,
   selectedDuelist |-> selectedDuelist]

\* The handler has re-entered itself MaxRecursion times and has not
\* returned.
StillSelecting ==
  [success |-> FALSE, message |-> "", error |-> "", salt |-> << >>,
   moves |-> << >>, hash |-> << >>, active |-> << >>,
   selectedDuelist |-> NullDuelist]

\* Mutant: the caller's own address stays among the candidates.
OtherPlayersUnfiltered(players, ourAddress) ==
  { normalizeStarknetAddress(a) : a \in players }

\* playerAddresses: the normalized player addresses without ours.
OtherPlayers(players, ourAddress) ==
  { normalizeStarknetAddress(a) : a \in players } \ { ourAddress }

RECURSIVE SelectDuelist(_, _, _, _, _, _)
\* The values one invocation of the handler can return.  rawTarget is
\* call.data.targetAddress (empty when absent); players, alive and
\* challenges are what the three queries return, the same in every
\* re-entry; the random picks are the choices of the sets.
SelectDuelist(ourAddress, rawTarget, players, alive, challenges, depth) ==
  LET playerAddresses == OtherPlayers(players, ourAddress)
      targets == IF rawTarget = << >>
                    \/ normalizeStarknetAddress(rawTarget) \notin playerAddresses
                 THEN playerAddresses
                 ELSE { normalizeStarknetAddress(rawTarget) }
      busyDuelists == BusyDuelists(challenges)
  IN
  IF playerAddresses = {}
  THEN { SelectionResult("No other players found", NullDuelist) }
  ELSE UNION {
         LET availableDuelists == AvailableDuelists(targetAddress, alive, busyDuelists)
             remainingPlayers == playerAddresses \ { targetAddress }
         IN IF availableDuelists = {}
            THEN IF remainingPlayers # {}
                 THEN IF depth >= MaxRecursion
                      THEN { StillSelecting }
                      ELSE UNION { SelectDuelist(ourAddress, next, players, alive,
                                                 challenges, depth + 1) :
                                     next \in remainingPlayers }
                 ELSE { SelectionResult("No available duelists found from any player",
                                        NullDuelist) }
            ELSE { SelectionResult("Successfully selected a duelist to challenge",
                                   [duelist_id |-> d.duelist_id,
                                    is_alive |-> d.is_alive,
                                    is_inactive |-> d.is_inactive,
                                    owner_address |-> targetAddress]) :
                     d \in availableDuelists } :
         targetAddress \in targets }

\* rawPlayer: call.data.playerAddress || env.STARKNET_ADDRESS.
get_available_duelists(rawPlayer, rawTarget, players, alive, challenges, ok) ==
  /\ lastCall' = [action |-> "get_available_duelists", duelId |-> 0, moves |-> << >>,
                  playerAddress |-> normalizeStarknetAddress(rawPlayer),
                  targetAddress |-> rawTarget,
                  players |-> players, alive |-> alive, challenges |-> challenges]
  /\ writes' = << >>
  /\ IF ~ok
     THEN result' = Failure("Failed to select duelist to challenge", ReadError)
     ELSE result' \in SelectDuelist(normalizeStarknetAddress(rawPlayer), rawTarget,
                                    players, alive, challenges, 0)
  /\ UNCHANGED << duelResults, committedMoves, activeChallenge, duelistId, challengeState,
                  activeChallenges >>

\* What the InProgress query can return: up to MaxSnapshot challenges, each
\* with two different duelists.
InProgressSnapshots ==
  UNION { [1..n -> { c \in [duelist_id_a : TokenIds, duelist_id_b : TokenIds] :
                       c.duelist_id_a # c.duelist_id_b }] :
          n \in 0..MaxSnapshot }

\* The addresses a caller passes as playerAddress: none (the agent's own
\* from the environment) or the opponent's.
RawOpponentAddress == << "0", "x", "0", "B", "2" >>
RawCallers == { RawPlayerAddress, RawOpponentAddress }
RawTargets == { << >>, RawPlayerAddress, RawOpponentAddress }

FetchChallenges ==
  \E snapshot \in Snapshots :
    /\ fetch_challenges(SelectSeq(snapshot, LAMBDA n : n.address_a = PlayerAddress),
                        SelectSeq(snapshot, LAMBDA n : n.address_b = PlayerAddress),
                        TRUE)
    /\ UNCHANGED << firstCommit, now >>

\* The read API fails: queryPistolsAPI throws.
FetchChallengesFails ==
  /\ fetch_challenges(<< >>, << >>, FALSE)
  /\ UNCHANGED << firstCommit, now >>

AcceptChallenge ==
  \E k \in DuelistIds, challengeId \in DuelIds, outcome \in WriteOutcomes :
    /\ accept_challenge(k, challengeId, outcome)
    /\ UNCHANGED << firstCommit, now >>

\* state.activeChallenges.push has no bound in the code; the list is kept to
\* MaxChallenges entries here.
CreateChallenge ==
  \E k \in DuelistIds, rawChallenged \in RawAddresses, quote \in QuoteInputs,
     hours \in ExpireHoursInputs, outcome \in WriteOutcomes, newDuel \in DuelIds :
    /\ Len(activeChallenges) < MaxChallenges
    /\ create_challenge(RawPlayerAddress, k, rawChallenged, quote, hours, outcome, newDuel)
    /\ UNCHANGED << firstCommit, now >>

GetAvailableDuelists ==
  \E rawPlayer \in RawCallers, rawTarget \in RawTargets,
     players \in SUBSET AllPlayers, alive \in SUBSET TokenIds,
     challenges \in InProgressSnapshots :
    /\ get_available_duelists(rawPlayer, rawTarget, players, alive, challenges, TRUE)
    /\ UNCHANGED << firstCommit, now >>

\* One of the three queries fails.
GetAvailableDuelistsFails ==
  /\ get_available_duelists(RawPlayerAddress, << >>, {}, {}, << >>, FALSE)
  /\ UNCHANGED << firstCommit, now >>

NextLedger == FetchChallenges \/ FetchChallengesFails \/ AcceptChallenge

SpecLedger == Init /\ [][NextLedger]_vars

\* Time passes.
Tick ==
  /\ now < MaxTime
  /\ now' = now + 1
  /\ UNCHANGED << duelResults, committedMoves, activeChallenge, duelistId, challengeState,
                  activeChallenges, lastCall, result, writes, firstCommit >>

\* timestamps.end of a duel that nobody has accepted yet: the time after
\* which the ledger no longer takes a reply.  A challenge stays open for one
\* unit of time after timestamps.start, which grows with the duel id.
ExpiryDeadline(d) == d + 1

\* The challenge response flow while time passes.
NextExpiry == FetchChallenges \/ AcceptChallenge \/ Tick

SpecExpiry == Init /\ [][NextExpiry]_vars

\* The challenge creation and response flows together.
NextBooking == FetchChallenges \/ AcceptChallenge \/ CreateChallenge

SpecBooking == Init /\ [][NextBooking]_vars

\* Accepting a challenge and looking for a duelist.
NextRoster == AcceptChallenge \/ GetAvailableDuelists \/ GetAvailableDuelistsFails

SpecRoster == Init /\ [][NextRoster]_vars

\* What the two queries of one fetch_challenges call can answer, taken
\* together: up to MaxSortLen challenges in any of the snapshot states, with
\* start times that can be equal.  The i-th challenge is duel i; the agent
\* is the challenger of the odd ones and the challenged of the even ones.
QueryAnswers(n) ==
  { [i \in 1..n |->
       ChallengeNode(i, q[i].state, IF i % 2 = 1 THEN "a" ELSE "b", 1, q[i].start)] :
      q \in [1..n -> [state : SnapshotStates, start : 1..MaxStart]] }

\* A fresh agent about to process one answer.
InitSort ==
  /\ committedMoves = EmptyStore
  /\ activeChallenge = 0
  /\ duelistId = 0
  /\ challengeState = ""
  /\ activeChallenges = << >>
  /\ \E n \in 0..MaxSortLen :
       \E answer \in QueryAnswers(n) :
         lastCall = [action |-> "query", duelId |-> 0, moves |-> << >>,
                     nodes |-> answer]
  /\ result = NoResult
  /\ writes = << >>
  /\ firstCommit = EmptyStore
  /\ now = 0
  /\ duelResults = NoDuelResults

\* fetch_challenges on that answer.
FetchAnswer ==
  /\ lastCall.action = "query"
  /\ fetch_challenges(SelectSeq(lastCall.nodes, LAMBDA n : n.address_a = PlayerAddress),
                      SelectSeq(lastCall.nodes, LAMBDA n : n.address_a # PlayerAddress),
                      TRUE)
  /\ UNCHANGED << firstCommit, now >>

SpecSort == InitSort /\ [][FetchAnswer]_vars

\* The duel flow up to the commitment: the ledger is read, then moves are
\* committed.
NextDuel == FetchChallenges \/ FetchChallengesFails \/ CommitMoves

SpecDuel == Init /\ [][NextDuel]_vars

(***************************************************************************)
(* analyze_duel_history                                                    *)
(***************************************************************************)
\* duelMap entry of one challenge node; playerAddress is the normalized
\* call.data.playerAddress.
DuelInfo(c, playerAddress) ==
  [isPlayerA |-> c.address_a = playerAddress,
   result |-> IF c.state = "Draw" THEN "draw"
              ELSE IF c.winner = (IF c.address_a = playerAddress
                                  THEN c.duelist_id_a
                                  ELSE c.duelist_id_b)
                   THEN "win"
                   ELSE "loss"]

\* new Map(ourChallenges.map(c => [c.duel_id, ...])): a later node with the
\* same duel id replaces an earlier one.
DuelMap(ourChallenges, playerAddress) ==
  [d \in { ourChallenges[i].duel_id : i \in 1..Len(ourChallenges) } |->
     LET last == CHOOSE i \in 1..Len(ourChallenges) :
                   /\ ourChallenges[i].duel_id = d
                   /\ \A j \in 1..Len(ourChallenges) :
                        ourChallenges[j].duel_id = d => j <= i
     IN DuelInfo(ourChallenges[last], playerAddress)]

OurRound(round, duelInfo) ==
  [duel_id |-> round.duel_id,
   playerMoves |-> IF duelInfo.isPlayerA THEN round.moves_a ELSE round.moves_b,
   opponentMoves |-> IF duelInfo.isPlayerA THEN round.moves_b ELSE round.moves_a,
   playerState |-> IF duelInfo.isPlayerA THEN round.state_a ELSE round.state_b,
   opponentState |-> IF duelInfo.isPlayerA THEN round.state_b ELSE round.state_a,
   result |-> duelInfo.result,
   final_blow |-> round.final_blow]

\* nodesA, nodesB: the edges of addressAChallenges and addressBChallenges;
\* rounds: the edges of pistolsRoundModels; ok: both queries answered.
analyze_duel_history(rawPlayer, nodesA, nodesB, rounds, ok) ==
  LET playerAddress == normalizeStarknetAddress(rawPlayer)
      ourChallenges == nodesA \o nodesB
      duelMap == DuelMap(ourChallenges, playerAddress)
      finished == SelectSeq(rounds, LAMBDA round : round.duel_id \in DOMAIN duelMap)
      ourRounds == [i \in 1..Len(finished) |->
                      OurRound(finished[i], duelMap[finished[i].duel_id])]
  IN
  /\ lastCall' = [action |-> "analyze_duel_history", duelId |-> 0, moves |-> << >>,
                  playerAddress |-> rawPlayer, challenges |-> ourChallenges,
                  rounds |-> rounds]
  /\ writes' = << >>
  /\ IF ~ok
     THEN /\ result' = Failure("Failed to gather duel history", ReadError)
          /\ UNCHANGED duelResults
     ELSE /\ duelResults' = [rounds |-> ourRounds,
                             totalDuels |-> Len(ourChallenges),
                             lastAnalyzed |-> now * 1000]
          /\ result' = [success |-> TRUE,
                        message |-> "Successfully gathered duel history data",
                        error |-> "", salt |-> << >>, moves |-> << >>,
                        hash |-> << >>, active |-> << >>,
                        data |-> [rounds |-> ourRounds,
                                  totalDuels |-> Len(ourChallenges),
                                  duelMap |-> duelMap]]
  /\ UNCHANGED << committedMoves, activeChallenge, duelistId, challengeState,
                  activeChallenges >>

\* The same address as the ledger can spell it: zero-padded.
Padded(address) == << "0", "x", "0" >> \o SubSeq(address, 3, Len(address))

\* A resolved duel of the agent as the read API returns it.  side is the
\* side the agent is on; padded tells whether the ledger pads its addresses;
\* winner is the winning duelist.
ResolvedNode(d, side, padded, winner) ==
  LET spell(address) == IF padded THEN Padded(address) ELSE address
  IN [duel_id |-> d, state |-> "Resolved", winner |-> winner,
      address_a |-> spell(IF side = "a" THEN PlayerAddress ELSE OpponentAddress),
      address_b |-> spell(IF side = "a" THEN OpponentAddress ELSE PlayerAddress),
      duelist_id_a |-> IF side = "a" THEN 1 ELSE OpponentDuelist,
      duelist_id_b |-> IF side = "a" THEN OpponentDuelist ELSE 1]

\* The finished round of duel d: side a shot at step 3, side b at step 7.
FinishedRound(d) ==
  [duel_id |-> d, moves_a |-> << 3, 7, 1, 2 >>, moves_b |-> << 7, 3, 1, 2 >>,
   state_a |-> [health |-> 3], state_b |-> [health |-> 0],
   final_blow |-> [Paces |-> 3, Blades |-> 0]]

\* The resolved duels of the agent, duel i listed i-th, up to MaxHistory.
Histories(n) ==
  { [i \in 1..n |-> ResolvedNode(i, q[i].side, q[i].padded, q[i].winner)] :
      q \in [1..n -> [side : { "a", "b" }, padded : BOOLEAN,
                      winner : { 1, OpponentDuelist }]] }

\* The rounds query answers with every finished round, one of a duel that
\* is not the agent's among them.
AnalyzeDuelHistory ==
  \E rawPlayer \in { PlayerAddress, RawPlayerAddress }, n \in 0..MaxHistory :
    \E history \in Histories(n) :
      /\ analyze_duel_history(rawPlayer,
                              SelectSeq(history, LAMBDA c : c.duelist_id_a = 1),
                              SelectSeq(history, LAMBDA c : c.duelist_id_b = 1),
                              [i \in 1..(n + 1) |-> FinishedRound(i)],
                              TRUE)
      /\ UNCHANGED << firstCommit, now >>

\* The read API fails: queryPistolsAPI throws.
AnalyzeDuelHistoryFails ==
  /\ analyze_duel_history(RawPlayerAddress, << >>, << >>, << >>, FALSE)
  /\ UNCHANGED << firstCommit, now >>

NextHistory == AnalyzeDuelHistory \/ AnalyzeDuelHistoryFails

SpecHistory == Init /\ [][NextHistory]_vars

(***************************************************************************)
(* One call from a state the agent has reached                             *)
(***************************************************************************)
\* The committedMoves entry commit_moves stores for one input.
CommittedEntry(input) ==
  [salt |-> input.salt, moves |-> input.moves,
   hash |-> make_moves_hash(input.salt, input.moves)]

\* The stores that confirmed commits leave behind.
CommittedStores ==
  UNION { [ds -> { CommittedEntry(input) : input \in CommitInputs }] :
          ds \in SUBSET DuelIds }

\* The agent state after confirmed commits have filled the store, the last
\* of them for duel lastDuel with the first duelist, and fetch_challenges
\* has then read one snapshot.
AfterCommitsAndFetch(store, snapshot) ==
  LET challenges == ChallengesAsA(SelectSeq(snapshot, LAMBDA n : n.address_a = PlayerAddress))
                    \o ChallengesAsB(SelectSeq(snapshot, LAMBDA n : n.address_b = PlayerAddress))
      active == FilterActive(SortChallenges(challenges))
      committed == DOMAIN store # {}
      lastDuel == IF committed
                  THEN CHOOSE d \in DOMAIN store : \A e \in DOMAIN store : e <= d
                  ELSE 0
      lastDuelist == IF committed THEN 1 ELSE 0
  IN
  /\ committedMoves = store
  /\ IF Len(active) > 0
     THEN /\ activeChallenges = StoredChallenges(active)
          /\ activeChallenge = active[1].duel_id
          /\ challengeState = active[1].state
          /\ duelistId = IF active[1].state = "InProgress"
                         THEN active[1].duelist_id_a
                         ELSE lastDuelist
     ELSE /\ activeChallenges = << >>
          /\ activeChallenge = lastDuel
          /\ challengeState = ""
          /\ duelistId = lastDuelist

InitWrites ==
  /\ \E store \in CommittedStores, snapshot \in Snapshots :
       AfterCommitsAndFetch(store, snapshot)
  /\ lastCall = NoCall
  /\ result = NoResult
  /\ writes = << >>
  /\ firstCommit = EmptyStore
  /\ now = 0
  /\ duelResults = NoDuelResults

\* One call of each handler that writes to the chain.
AcceptOnce == lastCall = NoCall /\ AcceptChallenge
CommitOnce == lastCall = NoCall /\ CommitMoves
RevealOnce == lastCall = NoCall /\ RevealMoves

\* create_challenge as the prompt asks for it: a short quote, the default
\* expiry.
CreateOnce ==
  /\ lastCall = NoCall
  /\ \E k \in DuelistIds, rawChallenged \in RawAddresses, outcome \in WriteOutcomes,
        newDuel \in DuelIds :
       /\ create_challenge(RawPlayerAddress, k, rawChallenged, Quote(19), 24, outcome, newDuel)
       /\ UNCHANGED << firstCommit, now >>

NextWrites == AcceptOnce \/ CreateOnce \/ CommitOnce \/ RevealOnce

SpecWrites == InitWrites /\ [][NextWrites]_vars

(***************************************************************************)
(* normalizeStarknetAddress on the spellings of one address                *)
(***************************************************************************)
\* Addresses as their hex digits, lowercase, without leading zeros.
AddressDigits == { << "a", "1" >>, << "b", "2" >>, << "1", "f" >> }

ToUpperCase(c) ==
  CASE c = "a" -> "A" [] c = "b" -> "B" [] c = "c" -> "C" [] c = "d" -> "D"
    [] c = "e" -> "E" [] c = "f" -> "F" [] c = "x" -> "X" [] OTHER -> c

\* The spellings of one address: with '0x', with '0X' or with no prefix, with
\* up to MaxZeros leading zeros, the digits in lowercase or in uppercase.
AddressForms(digits) ==
  { prefix \o [i \in 1..z |-> "0"] \o body :
      prefix \in { << >>, << "0", "x" >>, << "0", "X" >> },
      z \in 0..MaxZeros,
      body \in { digits, [i \in 1..Len(digits) |-> ToUpperCase(digits[i])] } }

\* One spelling of one address is about to be normalized.
InitNormalize ==
  /\ committedMoves = EmptyStore
  /\ activeChallenge = 0
  /\ duelistId = 0
  /\ challengeState = ""
  /\ activeChallenges = << >>
  /\ \E digits \in AddressDigits :
       \E address \in AddressForms(digits) :
         lastCall = [action |-> "address", duelId |-> 0, moves |-> << >>,
                     address |-> address, digits |-> digits]
  /\ result = NoResult
  /\ writes = << >>
  /\ firstCommit = EmptyStore
  /\ now = 0
  /\ duelResults = NoDuelResults

Normalize ==
  /\ lastCall.action = "address"
  /\ lastCall' = [lastCall EXCEPT !.action = "normalizeStarknetAddress"]
  /\ result' = [success |-> TRUE, message |-> "", error |-> "", salt |-> << >>,
                moves |-> << >>, hash |-> << >>, active |-> << >>,
                normalized |-> normalizeStarknetAddress(lastCall.address)]
  /\ UNCHANGED << duelResults, committedMoves, activeChallenge, duelistId, challengeState,
                  activeChallenges, writes, firstCommit, now >>

SpecNormalize == InitNormalize /\ [][Normalize]_vars

\* What a fetch can have read before an accept: up to MaxChallenges nodes of
\* different duels, listed by duel id.
LedgerSnapshots ==
  UNION { { q \in [1..n -> RemoteNodes] :
              \A i, j \in 1..n : i < j => q[i].duel_id < q[j].duel_id } :
          n \in 0..MaxChallenges }

\* The agent holds secrets and a local ledger of several challenges.
InitAccept ==
  /\ \E store \in CommittedStores, snapshot \in LedgerSnapshots :
       AfterCommitsAndFetch(store, snapshot)
  /\ lastCall = NoCall
  /\ result = NoResult
  /\ writes = << >>
  /\ firstCommit = EmptyStore
  /\ now = 0
  /\ duelResults = NoDuelResults

\* One accept_challenge call from such a state.
SpecAccept == InitAccept /\ [][AcceptOnce]_vars

(***************************************************************************)
(* The ledger reports what the agent created                               *)
(***************************************************************************)
\* create_challenge as the prompt asks for it, answered by the chain with a
\* duel id it has not handed out before.
CreateChallengeFresh ==
  \E k \in DuelistIds, rawChallenged \in RawAddresses, outcome \in WriteOutcomes,
     newDuel \in DuelIds :
    /\ Len(activeChallenges) < MaxChallenges
    /\ \A i \in 1..Len(activeChallenges) : activeChallenges[i].duel_id # newDuel
    /\ create_challenge(RawPlayerAddress, k, rawChallenged, Quote(19), 24, outcome, newDuel)
    /\ UNCHANGED << firstCommit, now >>

\* The node the read API returns for a challenge the agent created.
CreatedNode(c) ==
  [duel_id |-> c.duel_id, state |-> c.state,
   address_a |-> c.address_a, address_b |-> c.address_b,
   duelist_id_a |-> c.duelist_id_a, duelist_id_b |-> c.duelist_id_b,
   start |-> c.start]

\* fetch_challenges when the ledger holds the challenges the agent created
\* under a duel id, each once: addressAChallenges answers with those whose
\* address_a is the agent's, addressBChallenges with those whose address_b
\* is.
FetchCreated ==
  LET Held(d) == \E i \in 1..Len(activeChallenges) : activeChallenges[i].duel_id = d
      duels == SelectSeq([d \in 1..MaxDuel |-> d], Held)
      nodes == [i \in 1..Len(duels) |->
                  CreatedNode(activeChallenges[
                    CHOOSE j \in 1..Len(activeChallenges) :
                      /\ activeChallenges[j].duel_id = duels[i]
                      /\ \A h \in 1..(j - 1) : activeChallenges[h].duel_id # duels[i]])]
  IN
  /\ fetch_challenges(SelectSeq(nodes, LAMBDA n : n.address_a = PlayerAddress),
                      SelectSeq(nodes, LAMBDA n : n.address_b = PlayerAddress),
                      TRUE)
  /\ UNCHANGED << firstCommit, now >>

NextMirror == CreateChallengeFresh \/ FetchCreated \/ AcceptChallenge

SpecMirror == Init /\ [][NextMirror]_vars

\* One get_available_duelists call of a fresh agent; the caller names no
\* target, another player, or its own address in any of its spellings.
SelectOnce ==
  /\ lastCall = NoCall
  /\ \E rawPlayer \in RawCallers,
        rawTarget \in RawTargets \cup AddressForms(<< "a", "1" >>),
        players \in SUBSET AllPlayers, alive \in SUBSET TokenIds,
        challenges \in InProgressSnapshots :
       /\ get_available_duelists(rawPlayer, rawTarget, players, alive, challenges, TRUE)
       /\ UNCHANGED << firstCommit, now >>

SpecSelect == Init /\ [][SelectOnce]_vars

\* The local ledger under reads of any snapshot, accepts and creates.
NextLive == FetchChallenges \/ AcceptChallenge \/ CreateChallengeFresh

SpecLive == Init /\ [][NextLive]_vars

\* The agent holds a local ledger of several challenges and no secret.
InitStep ==
  /\ \E snapshot \in LedgerSnapshots :
       AfterCommitsAndFetch(EmptyStore, snapshot)
  /\ lastCall = NoCall
  /\ result = NoResult
  /\ writes = << >>
  /\ firstCommit = EmptyStore
  /\ now = 0
  /\ duelResults = NoDuelResults

\* One call that touches the local ledger, from such a state.
FetchOnce == lastCall = NoCall /\ FetchChallenges

NextStep == FetchOnce \/ AcceptOnce \/ CreateOnce

SpecStep == InitStep /\ [][NextStep]_vars

(***************************************************************************)
(* Properties                                                              *)
(***************************************************************************)
HexValue(c) ==
  CASE c = "0" -> 0 [] c = "1" -> 1 [] c = "2" -> 2 [] c = "3" -> 3
    [] c = "4" -> 4 [] c = "5" -> 5 [] c = "6" -> 6 [] c = "7" -> 7
    [] c = "8" -> 8 [] c = "9" -> 9 [] c = "a" -> 10 [] c = "b" -> 11
    [] c = "c" -> 12 [] c = "d" -> 13 [] c = "e" -> 14 [] c = "f" -> 15

RECURSIVE DigitsValue(_)
DigitsValue(ds) ==
  IF ds = << >> THEN 0
  ELSE 16 * DigitsValue(SubSeq(ds, 1, Len(ds) - 1)) + HexValue(ds[Len(ds)])

\* The number the ledger reads from a '0x...' argument.
FromHex(h) == DigitsValue(SubSeq(h, 3, Len(h)))

MissingSecretError == "No committed moves found for this duel"

IsCommitCall(c) == c.action = "commit_moves"
IsRevealCall(c) == c.action = "reveal_moves"

\* The last call issued a write that the chain answered with a receipt.
WriteReturned(ws) == ws # << >> /\ ws[1].outcome \in { "events", "noevents" }

AgentState == << committedMoves, activeChallenge, duelistId, challengeState,
                 activeChallenges >>

\* C1: whenever a commit write for duel d has put the agent's hash on the
\* ledger, the secret behind that hash is stored under committedMoves[d]
\* (also when the receipt carries no events).
C1_SecretStoredWhenHashExposed ==
  (IsCommitCall(lastCall) /\ WriteReturned(writes)) =>
    /\ lastCall.duelId \in DOMAIN committedMoves
    /\ bigintToHex(committedMoves[lastCall.duelId].hash) = writes[1].calldata[3]

\* C2: a commit_moves call never changes a secret that is already stored.
C2_StoredSecretImmutable ==
  [][ IsCommitCall(lastCall') =>
        \A d \in DOMAIN committedMoves :
          d \in DOMAIN committedMoves' /\ committedMoves'[d] = committedMoves[d] ]_vars

\* C3: a commit_moves call for a duel id that already has a stored, unrevealed
\* commitment returns a failure and issues no external write.
C3_DuplicateCommitRejected ==
  [][ (IsCommitCall(lastCall') /\ lastCall'.duelId \in DOMAIN committedMoves) =>
        (~result'.success /\ writes' = << >>) ]_vars

\* C4: reveal_moves for a duel id without a stored secret returns the
\* missing-secret failure, issues no write and leaves the agent state as it
\* was; a reveal write is only ever issued for a duel id that has a stored
\* secret.
C4_RevealWithoutSecretFails ==
  [][ /\ (IsRevealCall(lastCall') /\ lastCall'.duelId \notin DOMAIN committedMoves) =>
           /\ result'.success = FALSE
           /\ result'.error = MissingSecretError
           /\ writes' = << >>
           /\ AgentState' = AgentState
      /\ (IsRevealCall(lastCall') /\ writes' # << >>) =>
           /\ writes'[1].entrypoint = "reveal_moves"
           /\ writes'[1].calldata[2] \in DOMAIN committedMoves ]_vars

C4_Witness ==
  /\ IsRevealCall(lastCall)
  /\ result.success = FALSE
  /\ result.error = MissingSecretError
  /\ writes = << >>

\* C5: reveal_moves deletes committedMoves[d] only when the reveal write came
\* back with events; when the write throws or comes back without events the
\* entry is still there, unmodified.
C5_SecretKeptUntilRevealConfirmed ==
  [][ (IsRevealCall(lastCall') /\ lastCall'.duelId \in DOMAIN committedMoves) =>
        LET d == lastCall'.duelId IN
        /\ writes' # << >>
        /\ writes'[1].outcome # "events" =>
             (committedMoves' = committedMoves /\ ~result'.success)
        /\ d \notin DOMAIN committedMoves' =>
             (writes'[1].outcome = "events" /\ result'.success) ]_vars

C5_Witness ==
  /\ IsRevealCall(lastCall)
  /\ writes # << >>
  /\ writes[1].outcome \in { "noevents", "throw" }
  /\ lastCall.duelId \in DOMAIN committedMoves

C7_StoredHashIsSubmittedHash ==
  /\ \A d \in DOMAIN committedMoves :
       committedMoves[d].hash =
         make_moves_hash(committedMoves[d].salt, committedMoves[d].moves)
  /\ (IsCommitCall(lastCall) /\ result.success) =>
       /\ lastCall.duelId \in DOMAIN committedMoves
       /\ FromHex(writes[1].calldata[3]) = committedMoves[lastCall.duelId].hash
       /\ result.hash = writes[1].calldata[3]

C7_Witness ==
  /\ IsCommitCall(lastCall)
  /\ result.success
  /\ lastCall.duelId \in DOMAIN committedMoves
  /\ committedMoves[lastCall.duelId].salt > 0

\* C8: a successful reveal_moves for d leaves no entry for d, and a reveal
\* for d that directly follows it fails with the missing-secret condition
\* and issues no write.
C8_SecretConsumedOnce ==
  [][ /\ (IsRevealCall(lastCall') /\ result'.success) =>
           lastCall'.duelId \notin DOMAIN committedMoves'
      /\ (/\ IsRevealCall(lastCall) /\ result.success
          /\ IsRevealCall(lastCall') /\ lastCall'.duelId = lastCall.duelId) =>
           /\ ~result'.success
           /\ result'.error = MissingSecretError
           /\ writes' = << >> ]_vars

C8_Witness ==
  /\ IsRevealCall(lastCall)
  /\ result.success
  /\ lastCall.duelId \notin DOMAIN committedMoves

\* C9: every reveal write for d carries the salt and the moves of the first
\* commitment the agent submitted for d.
C9_RevealCarriesFirstCommitment ==
  (writes # << >> /\ writes[1].entrypoint = "reveal_moves") =>
    LET d == writes[1].calldata[2] IN
    /\ d \in DOMAIN firstCommit
    /\ writes[1].calldata[3] = bigintToHex(firstCommit[d].salt)
    /\ writes[1].calldata[4] = firstCommit[d].moves

\* The state the agent holds locally for a duel id; Null when it holds none.
LocalState(challenges, c) ==
  IF \E i \in 1..Len(challenges) : challenges[i].duel_id = c
  THEN challenges[CHOOSE i \in 1..Len(challenges) : challenges[i].duel_id = c].state
  ELSE "Null"

\* C10: accept_challenge issues the reply_duel write only for a challenge
\* whose locally known state is Awaiting.
C10_AcceptOnlyAwaiting ==
  [][ (lastCall'.action = "accept_challenge" /\ writes' # << >>) =>
        LocalState(activeChallenges, lastCall'.duelId) = "Awaiting" ]_vars

\* C11: commit_moves issues the commit write only for a duel whose locally
\* known state is InProgress; for a duel that is Awaiting, terminal or
\* unknown locally no write is issued.
C11_CommitOnlyInProgress ==
  [][ (IsCommitCall(lastCall') /\ writes' # << >>) =>
        LocalState(activeChallenges, lastCall'.duelId) = "InProgress" ]_vars

\* C12: accept_challenge issues the reply_duel write only while the current
\* time is before the challenge's expiry deadline.
C12_AcceptBeforeExpiry ==
  [][ (now' = now /\ lastCall'.action = "accept_challenge" /\ writes' # << >>) =>
        now < ExpiryDeadline(lastCall'.duelId) ]_vars

\* The duelists the agent has put into a locally held challenge.
OwnDuelists(c) ==
  ((IF c.address_a = PlayerAddress THEN { c.duelist_id_a } ELSE {})
   \cup (IF c.address_b = PlayerAddress THEN { c.duelist_id_b } ELSE {}))
  \ { 0 }

\* No duelist of the agent is in two unresolved local challenges.
NoDoubleBooking(challenges) ==
  \A i, j \in 1..Len(challenges) :
    (/\ challenges[i].duel_id # challenges[j].duel_id
     /\ IsActive(challenges[i]) /\ IsActive(challenges[j])) =>
      OwnDuelists(challenges[i]) \cap OwnDuelists(challenges[j]) = {}

\* Duelist k is in a locally held InProgress duel other than duel d.
EngagedInProgress(challenges, k, d) ==
  \E i \in 1..Len(challenges) :
    /\ challenges[i].duel_id # d
    /\ challenges[i].state = "InProgress"
    /\ k \in OwnDuelists(challenges[i])

IsBookingCall(c) == c.action \in { "create_challenge", "accept_challenge" }

\* C13: a create_challenge or accept_challenge call never leaves a duelist of
\* the agent in two unresolved local challenges, and it issues no write when
\* the duelist it supplies is already in an InProgress duel.
C13_NoDoubleBooking ==
  [][ (now' = now /\ IsBookingCall(lastCall')) =>
        /\ NoDoubleBooking(activeChallenges) => NoDoubleBooking(activeChallenges')
        /\ writes' # << >> =>
             ~EngagedInProgress(activeChallenges, writes'[1].calldata[1],
                                lastCall'.duelId) ]_vars

IsSelectCall(c) == c.action = "get_available_duelists"

\* C14: while the duel that accept_challenge put duelist k into is still
\* InProgress locally, get_available_duelists does not return k, whatever
\* the snapshot it reads shows.  (Under SpecRoster a challenge state of
\* InProgress is the mark of a successful accept, and duelistId is the
\* duelist it was accepted with.)
C14_AcceptedDuelistStaysBusy ==
  (IsSelectCall(lastCall) /\ result.success /\ challengeState = "InProgress") =>
    result.selectedDuelist.duelist_id # duelistId

\* The players a get_available_duelists call can pick a duelist from.
Candidates(c) ==
  { normalizeStarknetAddress(a) : a \in c.players } \ { c.playerAddress }

SelectedFitsSnapshot ==
  (IsSelectCall(lastCall) /\ result.success
   /\ result.selectedDuelist # NullDuelist) =>
    /\ result.selectedDuelist.is_alive
    /\ result.selectedDuelist.duelist_id \in lastCall.alive
    /\ ~result.selectedDuelist.is_inactive
    /\ \A i \in 1..Len(lastCall.challenges) :
         /\ result.selectedDuelist.duelist_id # lastCall.challenges[i].duelist_id_a
         /\ result.selectedDuelist.duelist_id # lastCall.challenges[i].duelist_id_b

NullWhenNoneFits ==
  (/\ IsSelectCall(lastCall)
   /\ result.error # ReadError
   /\ \A p \in Candidates(lastCall) :
        AvailableDuelists(p, lastCall.alive, BusyDuelists(lastCall.challenges)) = {}) =>
    (result.success /\ result.selectedDuelist = NullDuelist)

\* C15: the duelist get_available_duelists selects is alive, not inactive
\* and not a duelist of any challenge in the InProgress snapshot the call
\* read; when no duelist of any candidate is, the call returns
\* selectedDuelist null.
C15_SelectedDuelistIsFree ==
  SelectedFitsSnapshot /\ NullWhenNoneFits

\* The active list holds exactly the InProgress and Awaiting challenges of
\* the answer, each once and as the answer gave it.
ExactlyActive(nodes, active) ==
  /\ Len(active) = Cardinality({ i \in 1..Len(nodes) : IsActive(nodes[i]) })
  /\ \A i \in 1..Len(nodes) :
       IsActive(nodes[i]) =>
         \E j \in 1..Len(active) :
           /\ active[j].duel_id = nodes[i].duel_id
           /\ active[j].state = nodes[i].state
           /\ active[j].start = nodes[i].start
  /\ \A j \in 1..Len(active) : IsActive(active[j])
  /\ \A j, k \in 1..Len(active) : j # k => active[j].duel_id # active[k].duel_id

\* InProgress before Awaiting; within one state, later start first.
ActiveOrder(active) ==
  \A j, k \in 1..Len(active) :
    j < k =>
      /\ active[j].state = "Awaiting" => active[k].state = "Awaiting"
      /\ active[j].state = active[k].state => active[j].start >= active[k].start

\* C16: the active list fetch_challenges produces holds exactly the
\* challenges whose state is InProgress or Awaiting, every InProgress one
\* before every Awaiting one and, within one state, in descending order of
\* start; a non-empty list is stored in that order.
C16_ActiveListSorted ==
  [][ (lastCall.action = "query" /\ lastCall'.action = "fetch_challenges") =>
        /\ result'.success
        /\ ExactlyActive(lastCall.nodes, result'.active)
        /\ ActiveOrder(result'.active)
        /\ result'.active # << >> =>
             /\ Len(activeChallenges') = Len(result'.active)
             /\ \A j \in 1..Len(result'.active) :
                  activeChallenges'[j].duel_id = result'.active[j].duel_id ]_vars

C16_Witness ==
  /\ lastCall.action = "fetch_challenges"
  /\ Len(result.active) = 3
  /\ result.active[1].state = "InProgress"
  /\ result.active[2].state = "Awaiting"
  /\ result.active[3].state = "Awaiting"
  /\ result.active[2].start > result.active[3].start
  /\ result.active[2].duel_id > result.active[3].duel_id
  /\ activeChallenges # << >>

IsFetchCall(c) == c.action = "fetch_challenges"

\* The snapshot's active list reports duel d in state st.
ReportedActive(active, d, st) ==
  \E j \in 1..Len(active) : active[j].duel_id = d /\ active[j].state = st

\* C17: after a successful fetch_challenges every challenge the agent holds
\* as Awaiting or InProgress, in activeChallenges or as its current
\* challenge, is one the snapshot just read reports in that state; a
\* challenge the snapshot reports as terminal, or does not report, is no
\* longer held as live.
C17_LedgerReflectsSnapshot ==
  [][ (IsFetchCall(lastCall') /\ result'.success) =>
        /\ \A i \in 1..Len(activeChallenges') :
             IsActive(activeChallenges'[i]) =>
               ReportedActive(result'.active, activeChallenges'[i].duel_id,
                              activeChallenges'[i].state)
        /\ challengeState' \in { "Awaiting", "InProgress" } =>
             ReportedActive(result'.active, activeChallenge', challengeState') ]_vars

LedgerState == << activeChallenges, activeChallenge, challengeState, duelistId >>

\* C18: a successful fetch_challenges that directly follows a successful
\* fetch_challenges and reads the same challenges leaves activeChallenges,
\* activeChallenge, challengeState and duelistId as the first one left them.
C18_FetchIdempotent ==
  [][ (/\ IsFetchCall(lastCall) /\ result.success
       /\ IsFetchCall(lastCall') /\ result'.success
       /\ result'.active = result.active) =>
        LedgerState' = LedgerState ]_vars

C18_Witness ==
  /\ IsFetchCall(lastCall)
  /\ result.success
  /\ result.active # << >>
  /\ result.active[1].state = "InProgress"
  /\ activeChallenges = StoredChallenges(result.active)
  /\ duelistId = result.active[1].duelist_id_a

IsCreateCall(c) == c.action = "create_challenge"

\* C19: create_challenge issues no create_duel write whose challenged
\* address is the agent's own normalized address; such a call fails.
C19_SelfChallengeRejected ==
  [][ (now' = now /\ IsCreateCall(lastCall') /\ writes' # << >>) =>
        writes'[1].calldata[2] # normalizeStarknetAddress(RawPlayerAddress) ]_vars

\* The number of characters of the quote behind a felt in hex form.
QuoteLength(feltHex) == (Len(feltHex) - 2) \div 2

RECURSIVE FromDecimal(_)
FromDecimal(ds) ==
  IF ds = << >> THEN 0
  ELSE 10 * FromDecimal(SubSeq(ds, 1, Len(ds) - 1)) + HexValue(ds[Len(ds)])

\* What the prompt allows for a quote: under 20 characters.
QuoteLimit == 20

\* C20: every create_duel write carries a quote of fewer than 20 characters
\* and an expiry of 1 to 24 hours.
C20_CreateWithinBounds ==
  [][ (now' = now /\ IsCreateCall(lastCall') /\ writes' # << >>) =>
        /\ QuoteLength(writes'[1].calldata[4]) < QuoteLimit
        /\ FromDecimal(writes'[1].calldata[6]) >= 1
        /\ FromDecimal(writes'[1].calldata[6]) <= 24 ]_vars

\* The expiry half of C20 alone.
ExpiryWithinBounds ==
  [][ (now' = now /\ IsCreateCall(lastCall') /\ writes' # << >>) =>
        /\ FromDecimal(writes'[1].calldata[6]) >= 1
        /\ FromDecimal(writes'[1].calldata[6]) <= 24
        /\ QuoteLength(writes'[1].calldata[4]) <= QuoteSchemaMax ]_vars

\* A move list the duel accepts: shoot step, dodge step, tactic, blade, with
\* both steps in 1..10 and different.
LegalMoves(moves) ==
  /\ Len(moves) = 4
  /\ moves[1] \in 1..10
  /\ moves[2] \in 1..10
  /\ moves[1] # moves[2]

\* C21: commit_moves with a move list that is not legal submits no hash,
\* stores nothing and returns a failure.
C21_IllegalMovesRejected ==
  [][ (IsCommitCall(lastCall') /\ ~LegalMoves(lastCall'.moves)) =>
        /\ writes' = << >>
        /\ committedMoves' = committedMoves
        /\ ~result'.success ]_vars

\* C22: whatever handler ran last, it has returned a result with a boolean
\* success flag and a message, and a failed result carries an error detail.
C22_UniformResult ==
  lastCall.action # "none" =>
    /\ result.success \in BOOLEAN
    /\ result.message # ""
    /\ (~result.success => result.error # "")

\* A result without the free text of its error detail.
WithoutErrorText(r) == [r EXCEPT !.error = ""]

\* C23: the result reveal_moves returns when the write threw differs from
\* the missing-secret result in some field other than the error text.
C23_FatalDistinguishable ==
  (IsRevealCall(lastCall) /\ writes # << >> /\ writes[1].outcome = "throw") =>
    WithoutErrorText(result) # WithoutErrorText(MissingSecretResult)

IsWriteCall(c) ==
  c.action \in { "accept_challenge", "create_challenge", "commit_moves", "reveal_moves" }

\* C24: when the write of accept_challenge, create_challenge, commit_moves or
\* reveal_moves throws, the call returns success = false with the message of
\* the thrown error and the agent state is as it was before the call.
C24_ThrownWriteLeavesState ==
  [][ (IsWriteCall(lastCall') /\ writes' # << >> /\ writes'[1].outcome = "throw") =>
        /\ result'.success = FALSE
        /\ result'.error = WriteError
        /\ AgentState' = AgentState ]_vars

\* A write has thrown while the agent held a secret and a ledger entry.
C24_Witness ==
  /\ IsWriteCall(lastCall)
  /\ writes # << >>
  /\ writes[1].outcome = "throw"
  /\ result.error = WriteError
  /\ committedMoves # EmptyStore
  /\ activeChallenges # << >>

\* C25: every spelling of an address (either case of the digits and of the
\* 0x prefix, any number of leading zeros, with or without the prefix)
\* normalizes to the one string made of '0x' and the lowercase digits without
\* leading zeros.
C25_NormalizeCanonical ==
  lastCall.action = "normalizeStarknetAddress" =>
    result.normalized = << "0", "x" >> \o lastCall.digits

\* C25 without the spellings that begin with an uppercase '0X'.
NormalizeCanonicalLowerPrefix ==
  (lastCall.action = "normalizeStarknetAddress"
   /\ ~(Len(lastCall.address) >= 2 /\ lastCall.address[2] = "X")) =>
    result.normalized = << "0", "x" >> \o lastCall.digits

IsAnalyzeCall(c) == c.action = "analyze_duel_history"

\* The challenge of duel d among the nodes of the last call.
ChallengeOf(d) ==
  lastCall.challenges[CHOOSE i \in 1..Len(lastCall.challenges) :
                        lastCall.challenges[i].duel_id = d]

\* The player's side of challenge c, decided on normalized addresses.
OnSideA(c) ==
  normalizeStarknetAddress(c.address_a) = normalizeStarknetAddress(lastCall.playerAddress)

\* C26: analyze_duel_history decides the player's side of each duel by
\* comparing normalized addresses: every stored round carries the moves of
\* the player's side and a win exactly when the player's duelist won,
\* however the ledger spells address_a.
C26_SideByNormalizedAddress ==
  (IsAnalyzeCall(lastCall) /\ result.success) =>
    \A i \in 1..Len(duelResults.rounds) :
      LET round == duelResults.rounds[i]
          c == ChallengeOf(round.duel_id)
      IN /\ round.playerMoves = (IF OnSideA(c) THEN FinishedRound(round.duel_id).moves_a
                                               ELSE FinishedRound(round.duel_id).moves_b)
         /\ round.result = (IF c.winner = (IF OnSideA(c) THEN c.duelist_id_a
                                                         ELSE c.duelist_id_b)
                            THEN "win" ELSE "loss")

\* C27: after a confirmed commit for duel d no reveal write for d is issued
\* until a snapshot has indicated the reveal phase; a reveal_moves call that
\* follows the confirmed commit at once, with no snapshot read in between,
\* issues no write and fails.
C27_NoRevealBeforeIndication ==
  [][ (IsCommitCall(lastCall) /\ result.success
       /\ IsRevealCall(lastCall') /\ lastCall'.duelId = lastCall.duelId) =>
        /\ writes' = << >>
        /\ ~result'.success ]_vars

\* C28: get_available_duelists terminates: the call has returned, it is not
\* still re-entering itself after every candidate has been a target once.
C28_SelectionTerminates ==
  IsSelectCall(lastCall) => result # StillSelecting

\* C30: every reply_duel write carries the accepted flag '1'; no call issues
\* a reply that refuses.
C30_NeverRefuses ==
  \A i \in 1..Len(writes) :
    writes[i].entrypoint = "reply_duel" =>
      /\ writes[i].calldata[3] = "1"
      /\ lastCall.action = "accept_challenge"

\* accept_challenge has replied to a challenge of the local list.
C30_Witness ==
  /\ lastCall.action = "accept_challenge"
  /\ writes # << >>
  /\ writes[1].entrypoint = "reply_duel"
  /\ writes[1].calldata[3] = "1"
  /\ \E i \in 1..Len(activeChallenges) :
       activeChallenges[i].duel_id = writes[1].calldata[2]

\* The record a create_challenge call has put last on the local ledger.
Created(challenges) == challenges[Len(challenges)]

\* The first half of C31: the record pushed after a successful create is
\* Awaiting, from the agent's normalized address to the normalized challenged
\* address, with the supplied duelist on side a and nobody on side b.
CreatedRecordMatches ==
  [][ (now' = now /\ IsCreateCall(lastCall') /\ result'.success) =>
        /\ Len(activeChallenges') = Len(activeChallenges) + 1
        /\ Created(activeChallenges').state = "Awaiting"
        /\ Created(activeChallenges').address_a = normalizeStarknetAddress(RawPlayerAddress)
        /\ Created(activeChallenges').address_b = writes'[1].calldata[2]
        /\ Created(activeChallenges').duelist_id_a = writes'[1].calldata[1]
        /\ Created(activeChallenges').duelist_id_b = 0 ]_vars

\* C31: after a successful create_challenge the local ledger holds the new
\* challenge under the duel id the write returned (Awaiting, side a the
\* agent with the supplied duelist, side b the challenged address with no
\* duelist); a write that yields no duel id adds no record with an
\* undefined duel id.
C31_CreatedUnderReturnedId ==
  [][ (now' = now /\ IsCreateCall(lastCall') /\ result'.success) =>
        /\ Len(activeChallenges') = Len(activeChallenges) + 1
        /\ Created(activeChallenges').state = "Awaiting"
        /\ Created(activeChallenges').address_a = normalizeStarknetAddress(RawPlayerAddress)
        /\ Created(activeChallenges').address_b = writes'[1].calldata[2]
        /\ Created(activeChallenges').duelist_id_a = writes'[1].calldata[1]
        /\ Created(activeChallenges').duelist_id_b = 0
        /\ Created(activeChallenges').duel_id \in DuelIds ]_vars

IsAcceptCall(c) == c.action = "accept_challenge"

\* C32: after a successful accept_challenge(k, c) the local records of c are
\* InProgress with duelist_id_b = k, activeChallenge = c, duelistId = k,
\* challengeState = InProgress, and every other record of activeChallenges
\* and all of committedMoves are as before.
C32_AcceptUpdatesOnlyItsRecord ==
  [][ (IsAcceptCall(lastCall') /\ result'.success) =>
        LET c == lastCall'.duelId
            k == writes'[1].calldata[1]
        IN /\ activeChallenge' = c
           /\ duelistId' = k
           /\ challengeState' = "InProgress"
           /\ committedMoves' = committedMoves
           /\ Len(activeChallenges') = Len(activeChallenges)
           /\ \A i \in 1..Len(activeChallenges) :
                IF activeChallenges[i].duel_id = c
                THEN /\ activeChallenges'[i].duel_id = c
                     /\ activeChallenges'[i].state = "InProgress"
                     /\ activeChallenges'[i].duelist_id_b = k
                ELSE activeChallenges'[i] = activeChallenges[i] ]_vars

\* An accept has succeeded for an Awaiting challenge the agent had been
\* sent, while it held another challenge and a secret.
C32_Witness ==
  /\ IsAcceptCall(lastCall)
  /\ result.success
  /\ committedMoves # EmptyStore
  /\ \E i, j \in 1..Len(activeChallenges) :
       /\ activeChallenges[i].duel_id = lastCall.duelId
       /\ activeChallenges[i].state = "InProgress"
       /\ activeChallenges[i].duelist_id_b = duelistId
       /\ activeChallenges[i].address_b = PlayerAddress
       /\ activeChallenges[j].duel_id # lastCall.duelId
       /\ activeChallenges[j].state = "Awaiting"

\* C33: activeChallenges holds at most one record per duel id.
C33_OneRecordPerDuel ==
  \A i, j \in 1..Len(activeChallenges) :
    (i # j /\ activeChallenges[i].duel_id \in DuelIds) =>
      activeChallenges[i].duel_id # activeChallenges[j].duel_id

\* Node n is the one the ordering puts first among the nodes read: it is
\* live, InProgress whenever some node is, and no node of its state started
\* later.
MostPressing(nodes, n) ==
  /\ IsActive(n)
  /\ (\E j \in 1..Len(nodes) : nodes[j].state = "InProgress") => n.state = "InProgress"
  /\ \A j \in 1..Len(nodes) : nodes[j].state = n.state => nodes[j].start <= n.start

\* C34: after a successful fetch_challenges that read at least one live
\* challenge, activeChallenge is the duel id of the first element of the
\* ordered active list, an InProgress duel whenever one was read and the
\* latest started among those, and challengeState is that challenge's state.
C34_CurrentIsMostPressing ==
  [][ (/\ lastCall.action = "query"
       /\ lastCall'.action = "fetch_challenges"
       /\ \E i \in 1..Len(lastCall.nodes) : IsActive(lastCall.nodes[i])) =>
        /\ result'.success
        /\ activeChallenge' = result'.active[1].duel_id
        /\ \E i \in 1..Len(lastCall.nodes) :
             /\ MostPressing(lastCall.nodes, lastCall.nodes[i])
             /\ activeChallenge' = lastCall.nodes[i].duel_id
             /\ challengeState' = lastCall.nodes[i].state ]_vars

\* A fetch has read two InProgress challenges and an Awaiting one started
\* after the older of them, and made the later InProgress one current.
C34_Witness ==
  /\ lastCall.action = "fetch_challenges"
  /\ challengeState = "InProgress"
  /\ Len(result.active) = 3
  /\ result.active[1].duel_id = activeChallenge
  /\ result.active[2].state = "InProgress"
  /\ result.active[2].start < result.active[1].start
  /\ result.active[3].state = "Awaiting"
  /\ result.active[3].start > result.active[2].start

C36_OnlyLiveRecords ==
  \A i \in 1..Len(activeChallenges) :
    activeChallenges[i].state \in { "Awaiting", "InProgress" }

\* A fetch that found nothing live has left in place a list that holds an
\* accepted challenge and a created one.
C36_Witness ==
  /\ IsFetchCall(lastCall)
  /\ result.success
  /\ result.active = << >>
  /\ \E i, j \in 1..Len(activeChallenges) :
       /\ activeChallenges[i].state = "InProgress"
       /\ activeChallenges[j].state = "Awaiting"
       /\ activeChallenges[j].address_a = PlayerAddress

\* C37: activeChallenge is empty or the duel id of a record in
\* activeChallenges, and challengeState is the state of that record.
C37_CurrentIsOnLedger ==
  activeChallenge # 0 =>
    \E i \in 1..Len(activeChallenges) :
      /\ activeChallenges[i].duel_id = activeChallenge
      /\ activeChallenges[i].state = challengeState

\* The duelist of the agent's own side in challenge c.
OwnSideDuelist(c) ==
  IF c.address_a = PlayerAddress THEN c.duelist_id_a ELSE c.duelist_id_b

\* C38: after a successful fetch_challenges that found live challenges, the
\* duelist_id of every stored challenge is the duelist of the agent's own
\* side of that duel, and so is duelistId when the current challenge is
\* InProgress.
C38_OwnSideDuelist ==
  [][ (IsFetchCall(lastCall') /\ result'.success /\ result'.active # << >>) =>
        /\ \A i \in 1..Len(activeChallenges') :
             activeChallenges'[i].duelist_id = OwnSideDuelist(activeChallenges'[i])
        /\ challengeState' = "InProgress" =>
             duelistId' = OwnSideDuelist(activeChallenges'[1]) ]_vars

\* The salts a commit can draw, as bigintToHex writes them.
SaltHexes == { bigintToHex(input.salt) : input \in CommitInputs }

\* C39: a write that is not a reveal carries no salt and no moves: the
\* commit write has exactly three arguments, the duelist id, the duel id and
\* the hash, and the hash argument is none of the salts.
C39_CommitWriteHidesSecret ==
  \A i \in 1..Len(writes) :
    writes[i].entrypoint # "reveal_moves" =>
      /\ writes[i].entrypoint = "commit_moves"
      /\ Len(writes[i].calldata) = 3
      /\ writes[i].calldata[1] \in DuelistIds
      /\ writes[i].calldata[2] = lastCall.duelId
      /\ writes[i].calldata[3] \notin SaltHexes
      /\ result.success =>
           /\ writes[i].calldata[3] = result.hash
           /\ writes[i].calldata[3] # result.salt

\* A commit has been confirmed for a duel while the secret of another duel
\* was stored under a different salt.
C39_Witness ==
  /\ IsCommitCall(lastCall)
  /\ result.success
  /\ writes # << >>
  /\ result.salt \in SaltHexes
  /\ \E d \in DOMAIN committedMoves :
       /\ d # lastCall.duelId
       /\ bigintToHex(committedMoves[d].salt) # result.salt

\* C40: a commit_moves or reveal_moves call for duel d leaves the entries
\* of every other duel as they were; the entry of d comes into being or
\* changes only through a commit write for d confirmed with events and is
\* gone after a successful reveal for d; commit_moves returns success
\* exactly when it stored the entry for d.
C40_EntryFollowsConfirmedCommit ==
  [][ (IsCommitCall(lastCall') \/ IsRevealCall(lastCall')) =>
        LET d == lastCall'.duelId IN
        /\ \A e \in DuelIds \ { d } :
             /\ e \in DOMAIN committedMoves' <=> e \in DOMAIN committedMoves
             /\ e \in DOMAIN committedMoves => committedMoves'[e] = committedMoves[e]
        /\ (/\ d \in DOMAIN committedMoves'
            /\ (d \notin DOMAIN committedMoves \/ committedMoves'[d] # committedMoves[d])) =>
             (IsCommitCall(lastCall') /\ writes'[1].outcome = "events")
        /\ (IsRevealCall(lastCall') /\ result'.success) =>
             d \notin DOMAIN committedMoves'
        /\ IsCommitCall(lastCall') =>
             (result'.success <=>
                /\ writes'[1].outcome = "events"
                /\ d \in DOMAIN committedMoves'
                /\ committedMoves'[d].moves = lastCall'.moves
                /\ bigintToHex(committedMoves'[d].hash) = writes'[1].calldata[3]) ]_vars

\* A reveal has succeeded for one duel while the secret of another duel is
\* still stored.
C40_Witness ==
  /\ IsRevealCall(lastCall)
  /\ result.success
  /\ lastCall.duelId \notin DOMAIN committedMoves
  /\ \E e \in DOMAIN committedMoves : e # lastCall.duelId

====
